---------------------------- MODULE Spec2Model ----------------------------
(***************************************************************************)
(* A model of the S5 JavaScript ORM (src/index.js): the client context,    *)
(* the Document model with its static and instance operations, and the     *)
(* collection factory.  JavaScript values are tagged records so that the   *)
(* code's truthiness tests, optional chaining and property lookups can be  *)
(* written as the code evaluates them.  A network operation is two steps:  *)
(* the call (everything up to the first await: the request is built and    *)
(* issued) and the completion (the code after the await, run when the      *)
(* response or the transport failure arrives).                             *)
(***************************************************************************)
EXTENDS Integers, Sequences, FiniteSets, TLC

(***************************************************************************)
(* Bounds of the model.                                                    *)
(***************************************************************************)
\* longest q / order list handed to where()
MaxList == 2
\* most rows the server puts in one page
MaxRows == 2
\* longest dot-path (in keys) handed to get/set
MaxDepth == 3
\* operations that may be awaiting their response at the same time
MaxCalls == 2
\* most keys (at all levels together) the data of a Document holds
MaxNodes == 3

(***************************************************************************)
(* JavaScript values.                                                      *)
(***************************************************************************)
Undefined == [t |-> "undefined"]
Null == [t |-> "null"]
\* a string is the sequence of its tokens: a token is one reserved character
\* ("&", "=", "%", ...) or a run of characters that no code below looks into
Str(s) == [t |-> "string", v |-> s]
Num(n) == [t |-> "number", v |-> n]
Bool(b) == [t |-> "boolean", v |-> b]
\* an object: m is the function from its own keys to their values
Obj(m) == [t |-> "object", m |-> m]
\* an array: a is the sequence of its elements
Arr(a) == [t |-> "array", a |-> a]
EmptyObj == Obj(<<>>)

\* ToBoolean, as used by if (x), !x and x || y
Truthy(x) ==
  CASE x.t = "undefined" -> FALSE
    [] x.t = "null" -> FALSE
    [] x.t = "string" -> x.v # <<>>
    [] x.t = "number" -> x.v # 0
    [] x.t = "boolean" -> x.v
    [] OTHER -> TRUE

\* x || y
OrElse(x, y) == IF Truthy(x) THEN x ELSE y

\* o[k] on a value that is neither undefined nor null
Prop(o, k) ==
  IF o.t = "object" /\ k \in DOMAIN o.m THEN o.m[k] ELSE Undefined

\* o?.[k]
OptProp(o, k) == IF o.t \in {"undefined", "null"} THEN Undefined ELSE Prop(o, k)

\* { ...a, ...b } on two objects: b's keys win
Spread(a, b) == Obj(b.m @@ a.m)

\* what a call ends with
Return(v) == [kind |-> "return", value |-> v]
Throw(msg) == [kind |-> "throw", message |-> msg]
None == [kind |-> "none"]

(***************************************************************************)
(* Client context: S5Client, createCollection, S5.                         *)
(***************************************************************************)
\* axios.create({baseURL, headers})
axiosCreate(baseURL, apiKey) ==
  Obj([baseURL |-> baseURL,
       headers |-> Obj([Authorization |-> Str(<<"Bearer ">> \o apiKey.v),
                        ContentType |-> Str(<<"application/json">>)])])

\* the mutant: the collection name is not checked
S5ClientNoCollectionCheck(arg) ==
  LET config == IF arg = Undefined THEN EmptyObj ELSE arg
      baseURL == OrElse(Prop(config, "baseURL"), Str(<<"https://s5.host/api/v1">>))
      apiKey == Prop(config, "apiKey")
      collection == Prop(config, "collection")
  IN IF ~Truthy(apiKey) THEN Throw(<<"API key is required">>)
     ELSE Return(Obj([baseURL |-> baseURL, apiKey |-> apiKey,
                      collection |-> collection,
                      axios |-> axiosCreate(baseURL, apiKey)]))

\* new S5Client(config): the client, or the configuration error thrown
S5Client(arg) ==
  LET config == IF arg = Undefined THEN EmptyObj ELSE arg
      baseURL == OrElse(Prop(config, "baseURL"), Str(<<"https://s5.host/api/v1">>))
      apiKey == Prop(config, "apiKey")
      collection == Prop(config, "collection")
  IN IF ~Truthy(apiKey) THEN Throw(<<"API key is required">>)
     ELSE IF ~Truthy(collection) THEN Throw(<<"Collection name is required">>)
     ELSE Return(Obj([baseURL |-> baseURL, apiKey |-> apiKey,
                      collection |-> collection,
                      axios |-> axiosCreate(baseURL, apiKey)]))

\* createCollection(collection, client): the bound Document subtype, given by
\* its two static getters
createCollection(collection, client) ==
  Obj([client |-> client, collection |-> collection])

\* new S5(config): the constructor stores the config and checks nothing
S5(arg) == Obj([config |-> IF arg = Undefined THEN EmptyObj ELSE arg])

\* s5.collection(name)
S5collection(s5obj, name) ==
  LET made == S5Client(Spread(s5obj.m.config, Obj([collection |-> name])))
  IN IF made.kind = "throw" THEN made
     ELSE Return(createCollection(name, made.value))

(***************************************************************************)
(* Document: the constructor and the dot-path accessors.                   *)
(***************************************************************************)
\* new Document(data = {}, client)
Document(arg, client) ==
  LET data == IF arg = Undefined THEN EmptyObj ELSE arg
  IN Obj([data |-> OrElse(Prop(data, "data"), data),
          client |-> client,
          id |-> Prop(data, "id"),
          collection |-> Prop(data, "collection"),
          version |-> Prop(data, "version"),
          created_at |-> Prop(data, "created_at"),
          updated_at |-> Prop(data, "updated_at"),
          ttl_at |-> Prop(data, "ttl_at")])

\* new CollectionDocument(data = {}): super(data, client)
CollectionDocument(type, arg) ==
  Document(IF arg = Undefined THEN EmptyObj ELSE arg, type.m.client)

\* Object.assign(target, source): every own property of source is copied
ObjectAssign(target, source) == Obj(source.m @@ target.m)

\* get persisted()
persisted(this) == Truthy(this.m.id)

TypeError == <<"TypeError">>

\* str.split(sep): the pieces of a string between the separators; for a path,
\* its keys
RECURSIVE SplitFrom(_, _, _, _)
SplitFrom(s, sep, i, cur) ==
  IF i > Len(s) THEN <<cur>>
  ELSE IF s[i] = sep THEN <<cur>> \o SplitFrom(s, sep, i + 1, <<>>)
  ELSE SplitFrom(s, sep, i + 1, Append(cur, s[i]))
split(path) == SplitFrom(path.v, ".", 1, <<>>)

\* the property name a key stands for (the paths tried put at most one token
\* between two dots)
KeyOf(key) == IF key = <<>> THEN "" ELSE key[1]

\* one step of getNestedValue's reduce: current?.[key]
OptionalMember(current, key) == Return(OptProp(current, KeyOf(key)))

RECURSIVE ReduceGet(_, _)
ReduceGet(current, keys) ==
  IF keys = <<>> THEN Return(current)
  ELSE LET step == OptionalMember(current, Head(keys))
       IN IF step.kind = "throw" THEN step ELSE ReduceGet(step.value, Tail(keys))

\* getNestedValue(obj, path)
getNestedValue(obj, path) == ReduceGet(obj, split(path))

\* get(key)
get(this, key) == getNestedValue(this.m.data, key)

\* key in current: a TypeError unless current is an object
HasKey(current, key) == current.t = "object" /\ KeyOf(key) \in DOMAIN current.m

\* setNestedValue's reduce and final assignment, on the value current holds:
\* the value current holds afterwards, or the TypeError thrown (in strict mode
\* code) by `key in current` or by the assignment when current is no object
RECURSIVE ReduceSet(_, _, _)
ReduceSet(current, keys, value) ==
  IF current.t # "object" THEN Throw(TypeError)
  ELSE IF Len(keys) = 1
  THEN Return(Obj((KeyOf(keys[1]) :> value) @@ current.m))
  ELSE LET key == Head(keys)
           child == IF HasKey(current, key) THEN current.m[KeyOf(key)] ELSE EmptyObj
           below == ReduceSet(child, Tail(keys), value)
       IN IF below.kind = "throw" THEN below
          ELSE Return(Obj((KeyOf(key) :> below.value) @@ current.m))

\* the mutant: the value is assigned at the top level under the last key
setNestedValueFlat(obj, path, value) ==
  LET keys == split(path)
  IN Return(Obj((KeyOf(keys[Len(keys)]) :> value) @@ obj.m))

\* setNestedValue(obj, path, value): obj after the call, or the error thrown
setNestedValue(obj, path, value) == ReduceSet(obj, split(path), value)

\* the number of keys a value holds, at all levels
RECURSIVE Nodes(_)
RECURSIVE NodesOf(_, _)
NodesOf(m, ks) ==
  IF ks = {} THEN 0
  ELSE LET k == CHOOSE x \in ks : TRUE
       IN 1 + Nodes(m[k]) + NodesOf(m, ks \ {k})
Nodes(x) == IF x.t = "object" THEN NodesOf(x.m, DOMAIN x.m) ELSE 0

(***************************************************************************)
(* Strings, URLSearchParams and JSON.stringify, as where() uses them.      *)
(***************************************************************************)
Digits == <<"0", "1", "2", "3", "4", "5", "6", "7", "8", "9">>

\* String(x), as a template literal and URLSearchParams.append convert x
toStr(x) ==
  CASE x.t = "string" -> x.v
    [] x.t = "number" -> <<Digits[x.v + 1]>>
    [] x.t = "boolean" -> IF x.v THEN <<"true">> ELSE <<"false">>
    [] x.t = "null" -> <<"null">>
    [] x.t = "undefined" -> <<"undefined">>
    [] OTHER -> <<"[object Object]">>

\* the application/x-www-form-urlencoded percent-encode set: every character
\* but letters, digits and * - . _ is written as % and two hex digits
PercentCode ==
  ("&" :> "26") @@ ("=" :> "3D") @@ ("+" :> "2B") @@ ("%" :> "25") @@
  ("(" :> "28") @@ (")" :> "29") @@ ("," :> "2C") @@ ("\"" :> "22") @@
  ("{" :> "7B") @@ ("}" :> "7D") @@ (":" :> "3A") @@ ("?" :> "3F") @@
  ("/" :> "2F")

\* the mutant: nothing is encoded
EncodeTokenRaw(c) == <<c>>

\* the serializer's encoding of one token: a space becomes "+"
EncodeToken(c) ==
  IF c = " " THEN <<"+">>
  ELSE IF c \in DOMAIN PercentCode THEN <<"%", PercentCode[c]>>
  ELSE <<c>>

RECURSIVE EncodeString(_)
EncodeString(str) ==
  IF str = <<>> THEN <<>> ELSE EncodeToken(Head(str)) \o EncodeString(Tail(str))

\* new URLSearchParams(): the list of name-value pairs
NewParams == <<>>

\* params.append(name, value): the value is converted to a string
append(params, name, value) == Append(params, <<name, toStr(value)>>)

\* values.forEach((v) => params.append(name, v))
RECURSIVE appendEach(_, _, _)
appendEach(params, name, values) ==
  IF values = <<>> THEN params
  ELSE appendEach(append(params, name, Head(values)), name, Tail(values))

\* `${params}`: URLSearchParams.prototype.toString
RECURSIVE serialize(_)
serialize(params) ==
  IF params = <<>> THEN <<>>
  ELSE EncodeString(<<params[1][1]>>) \o <<"=">> \o EncodeString(params[1][2])
       \o (IF Len(params) = 1 THEN <<>> ELSE <<"&">> \o serialize(Tail(params)))

\* JSON.stringify(x); the members of an object in one fixed order of its keys,
\* members holding undefined left out
RECURSIVE JSONstringify(_)
RECURSIVE JSONmembers(_, _, _)
JSONmembers(m, ks, first) ==
  IF ks = {} THEN <<>>
  ELSE LET k == CHOOSE x \in ks : TRUE
       IN IF m[k].t = "undefined" THEN JSONmembers(m, ks \ {k}, first)
          ELSE (IF first THEN <<>> ELSE <<",">>)
               \o <<"\"", k, "\"", ":">> \o JSONstringify(m[k])
               \o JSONmembers(m, ks \ {k}, FALSE)
JSONstringify(x) ==
  CASE x.t = "string" -> <<"\"">> \o x.v \o <<"\"">>
    [] x.t = "object" -> <<"{">> \o JSONmembers(x.m, DOMAIN x.m, TRUE) \o <<"}">>
    [] OTHER -> toStr(x)

(***************************************************************************)
(* Requests, responses and the errors axios rejects with.                  *)
(***************************************************************************)
Request(method, url, body) == [method |-> method, url |-> url, body |-> body]
NoRequest == [method |-> "none"]

\* an HTTP response; axios resolves with it when the status is 2xx and
\* otherwise rejects with an error that carries it
Response(status, data) == [status |-> status, data |-> data]
\* no response at all: the request failed in transport
NoResponse == [status |-> 0]

IsSuccess(resp) == resp.status \in 200..299

\* the error axios rejects with
AxiosError(resp) ==
  IF resp = NoResponse THEN Obj([message |-> Str(<<"Network Error">>)])
  ELSE Obj([message |-> Str(<<"Request failed with status code ",
                              Digits[(resp.status \div 100) + 1], "xx">>),
            response |-> Obj([status |-> Num(resp.status), data |-> resp.data])])

\* the TypeError of client.axios when client is undefined
NoClientError ==
  Obj([message |-> Str(<<"Cannot read properties of undefined (reading 'axios')">>)])

\* the mutant: the transport text is used even when the server sent a message
ErrorTextTransportOnly(error) == toStr(Prop(error, "message"))

\* `${error.response?.data?.error?.message || error.message}`
ErrorText(error) ==
  toStr(OrElse(
    OptProp(OptProp(OptProp(OptProp(error, "response"), "data"), "error"), "message"),
    Prop(error, "message")))

\* throw new Error(`<label>${...}`)
Failed(label, error) == Throw(<<label>> \o ErrorText(error))

(***************************************************************************)
(* The operations of Document, each in two halves: the call, up to the     *)
(* await of the request, and the completion, from the response on.         *)
(***************************************************************************)
\* how a call goes on: it awaits the response to req, or it has ended
Await(req) == [kind |-> "await", req |-> req]
Ended(outcome) == [kind |-> "ended", outcome |-> outcome]

\* const { client } = this, in a static method: the receiver's static getter
StaticClient(type) == Prop(type, "client")

\* the base class Document: it defines no static client
DocumentClass == EmptyObj

\* Array.isArray(x) ? x : [x]
AsList(x) == IF x.t = "array" THEN x.a ELSE <<x>>

\* if (options.limit) params.append(...); if (options.page) params.append(...)
PaginationParams(params, options) ==
  LET p1 == IF Truthy(Prop(options, "limit"))
            THEN append(params, "limit", Prop(options, "limit")) ELSE params
  IN IF Truthy(Prop(options, "page"))
     THEN append(p1, "page", Prop(options, "page")) ELSE p1

\* the URLSearchParams where() builds from its options
whereParams(options) ==
  LET p1 == IF Truthy(Prop(options, "q"))
            THEN appendEach(NewParams, "q", AsList(Prop(options, "q")))
            ELSE NewParams
      p2 == IF Truthy(Prop(options, "order"))
            THEN appendEach(p1, "order", AsList(Prop(options, "order")))
            ELSE p1
      p3 == PaginationParams(p2, options)
  IN IF Truthy(Prop(options, "filter"))
     THEN append(p3, "filter", Str(JSONstringify(Prop(options, "filter"))))
     ELSE p3

\* `/${client.collection}`
CollectionURL(client) == <<"/">> \o toStr(Prop(client, "collection"))
\* `/${client.collection}/${id}`
DocumentURL(client, id) == CollectionURL(client) \o <<"/">> \o toStr(id)

\* static where(options = {}), to the await
whereCall(type, arg) ==
  LET options == IF arg = Undefined THEN EmptyObj ELSE arg
      client == StaticClient(type)
      params == whereParams(options)
  IN IF client.t \in {"undefined", "null"}
     THEN Ended(Failed("Query failed: ", NoClientError))
     ELSE Await(Request("GET",
                        CollectionURL(client) \o <<"?">> \o serialize(params),
                        Undefined))

\* static where, from the response on
whereDone(client, resp) ==
  IF IsSuccess(resp)
  THEN LET inner == Prop(resp.data, "data")
           rows == Prop(inner, "data").a
           documents == Arr([i \in 1..Len(rows) |-> Document(rows[i], client)])
       IN Return(Obj(IF Truthy(Prop(inner, "pagination"))
                     THEN [documents |-> documents,
                           pagination |-> Prop(inner, "pagination")]
                     ELSE [documents |-> documents]))
  ELSE Failed("Query failed: ", AxiosError(resp))

\* static find(id), to the await
findCall(type, id) ==
  LET client == StaticClient(type)
  IN IF client.t \in {"undefined", "null"}
     THEN Ended(Failed("Find failed: ", NoClientError))
     ELSE Await(Request("GET", DocumentURL(client, id), Undefined))

\* the mutant: every failure of find is thrown
findDoneThrowsOn404(client, resp) ==
  IF IsSuccess(resp) THEN Return(Document(Prop(resp.data, "data"), client))
  ELSE Failed("Find failed: ", AxiosError(resp))

\* static find, from the response on
findDone(client, resp) ==
  IF IsSuccess(resp) THEN Return(Document(Prop(resp.data, "data"), client))
  ELSE IF OptProp(OptProp(AxiosError(resp), "response"), "status") = Num(404)
  THEN Return(Null)
  ELSE Failed("Find failed: ", AxiosError(resp))

\* the mutant: the caller's limit wins
forceLimitUnlessGiven(arg) ==
  Spread(Obj([limit |-> Num(1)]), IF arg = Undefined THEN EmptyObj ELSE arg)

\* { ...options, limit: 1 }
forceLimit(arg) ==
  Spread(IF arg = Undefined THEN EmptyObj ELSE arg, Obj([limit |-> Num(1)]))

\* static first(options = {}) and count(options = {}), to the await
firstCall(type, arg) == whereCall(type, forceLimit(arg))
countCall(type, arg) == whereCall(type, forceLimit(arg))

\* static first, from where's result on
firstDone(client, resp) ==
  LET results == whereDone(client, resp)
  IN IF results.kind = "throw" THEN results
     ELSE LET documents == results.value.m.documents.a
          IN IF Len(documents) > 0 THEN Return(documents[1]) ELSE Return(Null)

\* static count, from where's result on
countDone(client, resp) ==
  LET results == whereDone(client, resp)
  IN IF results.kind = "throw" THEN results
     ELSE Return(Num(Len(results.value.m.documents.a)))

\* static create(data, options = {}), to the await
createStaticCall(type, data, arg) ==
  LET options == IF arg = Undefined THEN EmptyObj ELSE arg
      client == StaticClient(type)
  IN IF client.t \in {"undefined", "null"}
     THEN Ended(Failed("Create failed: ", NoClientError))
     ELSE Await(Request("POST", CollectionURL(client),
                        Spread(Obj([data |-> data]), options)))

\* static create, from the response on
createStaticDone(client, resp) ==
  IF IsSuccess(resp) THEN Return(Document(Prop(resp.data, "data"), client))
  ELSE Failed("Create failed: ", AxiosError(resp))

\* { data: this.data, ttl_at: this.ttl_at }
Payload(this) == Obj([data |-> this.m.data, ttl_at |-> this.m.ttl_at])

\* create(), to the await
createCall(this) ==
  Await(Request("POST", CollectionURL(this.m.client), Payload(this)))

\* the mutant: the argument replaces the data
mergeDataReplace(this, data) ==
  IF Truthy(data) THEN Obj([this.m EXCEPT !.data = data]) ELSE this

\* this after `if (data) this.data = { ...this.data, ...data }`
mergeData(this, data) ==
  IF Truthy(data) THEN Obj([this.m EXCEPT !.data = Spread(this.m.data, data)])
  ELSE this

\* update(data = null), after the merge, to the await
updateCall(this) ==
  Await(Request("PUT", DocumentURL(this.m.client, this.m.id), Payload(this)))

\* patch(data), to the await
patchCall(this, data) ==
  Await(Request("PATCH", DocumentURL(this.m.client, this.m.id) \o <<"/patch">>,
                Obj([data |-> data])))

\* destroy(), to the await
destroyCall(this) ==
  Await(Request("DELETE", DocumentURL(this.m.client, this.m.id), Undefined))

\* the mutant: save() always takes the create-path
saveCallAlwaysCreate(this) == [impl |-> "create", call |-> createCall(this)]

\* save(): the method it hands over to, and that method's call
saveCall(this) ==
  IF Truthy(this.m.id) THEN [impl |-> "update", call |-> updateCall(this)]
  ELSE [impl |-> "create", call |-> createCall(this)]

\* reload(), to the await: the refetch is Document.find, on the base class
reloadCall(this) ==
  IF ~Truthy(this.m.id) THEN Ended(Throw(<<"Cannot reload document without ID">>))
  ELSE findCall(DocumentClass, this.m.id)

\* what a completion leaves: the instance and how the call ended
Done(this, outcome) == [this |-> this, outcome |-> outcome]

\* the mutant: a failure clears the local data
assignDoneClearsOnFailure(this, label, resp) ==
  IF IsSuccess(resp)
  THEN LET newDoc == Document(Prop(resp.data, "data"), this.m.client)
       IN Done(ObjectAssign(this, newDoc), Return(ObjectAssign(this, newDoc)))
  ELSE Done(Obj([this.m EXCEPT !.data = EmptyObj]), Failed(label, AxiosError(resp)))

\* the mutant: a Document that has an id keeps its fields
assignDoneKeepsFirst(this, label, resp) ==
  IF IsSuccess(resp)
  THEN LET newDoc == Document(Prop(resp.data, "data"), this.m.client)
       IN IF Truthy(this.m.id) THEN Done(this, Return(this))
          ELSE Done(ObjectAssign(this, newDoc), Return(ObjectAssign(this, newDoc)))
  ELSE Done(this, Failed(label, AxiosError(resp)))

\* create(), update() and patch(), from the response on
assignDone(this, label, resp) ==
  IF IsSuccess(resp)
  THEN LET newDoc == Document(Prop(resp.data, "data"), this.m.client)
       IN Done(ObjectAssign(this, newDoc), Return(ObjectAssign(this, newDoc)))
  ELSE Done(this, Failed(label, AxiosError(resp)))

\* the mutant: a successful delete clears the id
destroyDoneClearsId(this, resp) ==
  IF IsSuccess(resp)
  THEN Done(Obj([this.m EXCEPT !.id = Undefined]), Return(Bool(TRUE)))
  ELSE Done(this, Failed("Delete failed: ", AxiosError(resp)))

\* destroy(), from the response on
destroyDone(this, resp) ==
  IF IsSuccess(resp) THEN Done(this, Return(Bool(TRUE)))
  ELSE Done(this, Failed("Delete failed: ", AxiosError(resp)))

\* reload(), from find's result on
reloadDone(this, found) ==
  IF found.kind = "throw" THEN Done(this, found)
  ELSE IF Truthy(found.value)
  THEN Done(ObjectAssign(this, found.value), Return(ObjectAssign(this, found.value)))
  ELSE Done(this, Return(this))

\* the code that runs when the response to an awaited request arrives
Complete(frame, this, resp) ==
  CASE frame.impl = "where" -> Done(this, whereDone(frame.client, resp))
    [] frame.impl = "find" -> Done(this, findDone(frame.client, resp))
    [] frame.impl = "first" -> Done(this, firstDone(frame.client, resp))
    [] frame.impl = "count" -> Done(this, countDone(frame.client, resp))
    [] frame.impl = "createStatic" -> Done(this, createStaticDone(frame.client, resp))
    [] frame.impl = "create" -> assignDone(this, "Create failed: ", resp)
    [] frame.impl = "update" -> assignDone(this, "Update failed: ", resp)
    [] frame.impl = "patch" -> assignDone(this, "Patch failed: ", resp)
    [] frame.impl = "destroy" -> destroyDone(this, resp)
    [] frame.impl = "reload" -> reloadDone(this, findDone(frame.client, resp))

(***************************************************************************)
(* The server and the caller: what they may answer and ask.                *)
(***************************************************************************)
\* the inverse of the serializer's encoding, as the server reads a query
RECURSIVE DecodeString(_)
DecodeString(str) ==
  IF str = <<>> THEN <<>>
  ELSE IF Head(str) = "+" THEN <<" ">> \o DecodeString(Tail(str))
  ELSE IF /\ Head(str) = "%"
          /\ Len(str) >= 2
          /\ \E c \in DOMAIN PercentCode : PercentCode[c] = str[2]
  THEN <<CHOOSE c \in DOMAIN PercentCode : PercentCode[c] = str[2]>>
       \o DecodeString(SubSeq(str, 3, Len(str)))
  ELSE <<Head(str)>> \o DecodeString(Tail(str))

\* the position of the first tok in str, 0 when there is none
FirstIndex(str, tok) ==
  IF \E i \in DOMAIN str : str[i] = tok
  THEN CHOOSE i \in DOMAIN str : str[i] = tok /\ \A j \in 1..(i - 1) : str[j] # tok
  ELSE 0

\* name=value, decoded
ParsePair(piece) ==
  LET eq == FirstIndex(piece, "=")
  IN IF eq = 0 THEN <<DecodeString(piece), <<>>>>
     ELSE <<DecodeString(SubSeq(piece, 1, eq - 1)),
            DecodeString(SubSeq(piece, eq + 1, Len(piece)))>>

RECURSIVE ParsePieces(_)
ParsePieces(pieces) ==
  IF pieces = <<>> THEN <<>>
  ELSE (IF Head(pieces) = <<>> THEN <<>> ELSE <<ParsePair(Head(pieces))>>)
       \o ParsePieces(Tail(pieces))

\* the name-value pairs of a query string, in order
ParseQuery(query) == ParsePieces(SplitFrom(query, "&", 1, <<>>))

\* the values of the parameters called name, in order
RECURSIVE ParamValues(_, _)
ParamValues(pairs, name) ==
  IF pairs = <<>> THEN <<>>
  ELSE (IF Head(pairs)[1] = <<name>> THEN <<Head(pairs)[2]>> ELSE <<>>)
       \o ParamValues(Tail(pairs), name)

\* a list request has a "?" in its URL; its query is what follows
IsListRequest(req) == req.method = "GET" /\ FirstIndex(req.url, "?") > 0
QueryString(req) == SubSeq(req.url, FirstIndex(req.url, "?") + 1, Len(req.url))
RequestParams(req) == ParseQuery(QueryString(req))

\* the number a run of one digit stands for
DigitValue(tok) == (CHOOSE i \in DOMAIN Digits : Digits[i] = tok) - 1

\* the records the server holds
ServerRecords ==
  {Obj([id |-> Str(<<"id1">>), collection |-> Str(<<"users">>),
        data |-> Obj([a |-> Num(1)]), version |-> Num(1),
        created_at |-> Str(<<"t1">>), updated_at |-> Str(<<"u1">>),
        ttl_at |-> Null]),
   Obj([id |-> Str(<<"id2">>), collection |-> Str(<<"users">>),
        data |-> Obj([b |-> Obj([a |-> Num(1)])]), version |-> Num(2),
        created_at |-> Str(<<"t2">>), updated_at |-> Str(<<"u2">>),
        ttl_at |-> Str(<<"x2">>)])}

\* the pages a server that honours limit may answer with: at most MaxRows
\* rows, and no more than the limit parameter when the request has one
PageSize(req) ==
  LET limits == ParamValues(RequestParams(req), "limit")
  IN IF limits = <<>> \/ DigitValue(limits[1][1]) > MaxRows THEN MaxRows
     ELSE DigitValue(limits[1][1])
Pages(req) == UNION {[1..n -> ServerRecords] : n \in 0..PageSize(req)}
PaginationParts == {<<>>, [pagination |-> Obj([page |-> Num(1)])]}

\* the ways a request fails: in transport, or with a status and a body that
\* holds a structured error, an empty one, or nothing
NoBody == Undefined
MessageBody == Obj([error |-> Obj([message |-> Str(<<"server says no">>)])])
EmptyMessageBody == Obj([error |-> Obj([message |-> Str(<<>>)])])
ErrorResponses ==
  {NoResponse, Response(404, NoBody), Response(404, MessageBody),
   Response(500, MessageBody), Response(500, EmptyMessageBody)}

\* every way the request may end
Responses(req) ==
  ErrorResponses \cup
  (IF IsListRequest(req)
   THEN {Response(200, Obj([data |-> Obj([data |-> Arr(rows)] @@ pg)]))
           : rows \in Pages(req), pg \in PaginationParts}
   ELSE IF req.method = "DELETE" THEN {Response(204, Undefined)}
   ELSE {Response(200, Obj([data |-> r])) : r \in ServerRecords})

(***************************************************************************)
(* State.                                                                  *)
(***************************************************************************)
VARIABLES
  s5,      \* the S5 entry point (Undefined before new S5(config))
  bound,   \* the collection-bound Document subtype (Undefined before collection(name))
  ctor,    \* the last construction call and what it ended with
  doc,     \* the Document instance the caller holds (Undefined before it has one)
  calls,   \* the operations awaiting their response, in the order they were started
  last     \* the operation that has just completed: its call, the receiver as
           \* it was when called (self) and just before the completion (before),
           \* its request, its response and how it ended (none once the caller
           \* has gone on)

vars == <<s5, bound, ctor, doc, calls, last>>

NoCalls == <<>>

\* the constructor arguments the caller tries
ApiKeyParts ==
  {<<>>} \cup {[apiKey |-> v] : v \in {Null, Str(<<>>), Str(<<"ak_key">>)}}
CollectionParts ==
  {<<>>} \cup {[collection |-> v] : v \in {Str(<<>>), Str(<<"users">>)}}
BaseURLParts ==
  {<<>>, [baseURL |-> Str(<<"http://localhost:3000/api/v1">>)]}
ConfigArgs ==
  {Undefined} \cup
  {Obj(a @@ c @@ b) : a \in ApiKeyParts, c \in CollectionParts, b \in BaseURLParts}
NameArgs == {Undefined, Str(<<>>), Str(<<"users">>), Str(<<"products">>)}

\* const s5 = new S5(config)
NewS5(config) ==
  /\ s5' = S5(config)
  /\ ctor' = [op |-> "S5", config |-> config, outcome |-> Return(S5(config))]
  /\ UNCHANGED <<bound, doc, calls, last>>

\* const User = s5.collection(name): nothing is assigned when it throws
Collection(name) ==
  /\ s5 # Undefined
  /\ LET r == S5collection(s5, name)
     IN /\ ctor' = [op |-> "collection", config |-> s5.m.config, name |-> name,
                    outcome |-> r]
        /\ bound' = IF r.kind = "return" THEN r.value ELSE bound
  /\ UNCHANGED <<s5, doc, calls, last>>

\* new S5Client(config), the exported class used directly
NewS5Client(config) ==
  /\ ctor' = [op |-> "S5Client", config |-> config, outcome |-> S5Client(config)]
  /\ UNCHANGED <<s5, bound, doc, calls, last>>

InitClient ==
  /\ s5 = Undefined
  /\ bound = Undefined
  /\ ctor = [op |-> "none"]
  /\ doc = Undefined
  /\ calls = NoCalls
  /\ last = [op |-> "none"]

NextClient ==
  \/ \E config \in ConfigArgs : NewS5(config)
  \/ \E name \in NameArgs : Collection(name)
  \/ \E config \in ConfigArgs : NewS5Client(config)

\* client construction on its own
SpecClient == InitClient /\ [][NextClient]_vars

(***************************************************************************)
(* A caller that holds a bound type: Document instances and accessors.     *)
(***************************************************************************)
\* new S5({apiKey: "ak_key"}) and s5.collection("users")
BoundConfig == Obj([apiKey |-> Str(<<"ak_key">>)])
BoundName == Str(<<"users">>)

InitBound ==
  /\ s5 = S5(BoundConfig)
  /\ bound = S5collection(S5(BoundConfig), BoundName).value
  /\ ctor = [op |-> "collection", config |-> BoundConfig, name |-> BoundName,
             outcome |-> S5collection(S5(BoundConfig), BoundName)]
  /\ doc = Undefined
  /\ calls = NoCalls
  /\ last = [op |-> "none"]

\* property names and values the caller uses in data
Keys == {"a", "b"}
ValueArgs == {Num(1), EmptyObj}

\* the dot-paths tried: 1..MaxDepth keys joined by dots
RECURSIVE JoinDots(_)
JoinDots(ks) ==
  IF Len(ks) = 1 THEN <<ks[1]>> ELSE <<ks[1], ".">> \o JoinDots(Tail(ks))
PathArgs == {Str(JoinDots(ks)) : ks \in UNION {[1..n -> Keys] : n \in 1..MaxDepth}}

\* what the caller constructs an instance from: nothing, plain user data, or
\* a record-shaped object (with an empty id)
DocumentArgs ==
  {Undefined,
   Obj([a |-> Num(1)]),
   Obj([id |-> Str(<<>>), data |-> Obj([a |-> Obj([b |-> Num(1)])]),
        ttl_at |-> Str(<<"x0">>)])}

\* doc = new User(arg), while no operation of the old instance is pending
NewDocument(arg) ==
  /\ calls = NoCalls
  /\ doc' = CollectionDocument(bound, arg)
  /\ last' = [op |-> "new"]
  /\ UNCHANGED <<s5, bound, ctor, calls>>

\* doc.set(path, value)
Set(path, value) ==
  /\ doc # Undefined
  /\ LET r == setNestedValue(doc.m.data, path, value)
     IN /\ r.kind = "return" => Nodes(r.value) <= MaxNodes
        /\ doc' = IF r.kind = "return"
                  THEN Obj([doc.m EXCEPT !.data = r.value]) ELSE doc
        /\ last' = [op |-> "set", path |-> path, value |-> value,
                    outcome |-> IF r.kind = "return" THEN Return(Undefined) ELSE r]
  /\ UNCHANGED <<s5, bound, ctor, calls>>

\* doc.get(path)
Get(path) ==
  /\ doc # Undefined
  /\ last' = [op |-> "get", path |-> path, outcome |-> get(doc, path)]
  /\ UNCHANGED <<s5, bound, ctor, doc, calls>>

NextAccessors ==
  \/ \E arg \in DocumentArgs : NewDocument(arg)
  \/ \E path \in PathArgs, value \in ValueArgs : Set(path, value)
  \/ \E path \in PathArgs : Get(path)

\* the accessors on their own
SpecAccessors == InitBound /\ [][NextAccessors]_vars

(***************************************************************************)
(* The network operations as actions.                                      *)
(***************************************************************************)
\* the method is suspended at its await, if no more than MaxCalls then are
Park(frame) ==
  /\ Len(calls) < MaxCalls
  /\ calls' = Append(calls, frame)

\* calls without its i-th frame
Without(i) == SubSeq(calls, 1, i - 1) \o SubSeq(calls, i + 1, Len(calls))

\* a call of op (run by method impl) on `this` has gone as far as `call`: it
\* awaits its request, or it has ended without one
Invoke(op, impl, args, this, client, call) ==
  IF call.kind = "await"
  THEN /\ Park([op |-> op, impl |-> impl, args |-> args, self |-> this,
                client |-> client, req |-> call.req])
       /\ last' = [op |-> "none"]
  ELSE /\ last' = [op |-> op, impl |-> impl, args |-> args, self |-> this,
                   before |-> this, req |-> NoRequest, resp |-> NoResponse,
                   outcome |-> call.outcome]
       /\ UNCHANGED calls

\* User.where(options)
Where(options) ==
  /\ Invoke("where", "where", <<options>>, bound, StaticClient(bound), whereCall(bound, options))
  /\ UNCHANGED <<s5, bound, ctor, doc>>

\* User.first(options)
First(options) ==
  /\ Invoke("first", "first", <<options>>, bound, StaticClient(bound), firstCall(bound, options))
  /\ UNCHANGED <<s5, bound, ctor, doc>>

\* User.count(options)
Count(options) ==
  /\ Invoke("count", "count", <<options>>, bound, StaticClient(bound), countCall(bound, options))
  /\ UNCHANGED <<s5, bound, ctor, doc>>

\* User.find(id)
Find(id) ==
  /\ Invoke("find", "find", <<id>>, bound, StaticClient(bound), findCall(bound, id))
  /\ UNCHANGED <<s5, bound, ctor, doc>>

\* User.create(data, options)
CreateStatic(data, options) ==
  /\ Invoke("createStatic", "createStatic", <<data, options>>, bound, StaticClient(bound),
            createStaticCall(bound, data, options))
  /\ UNCHANGED <<s5, bound, ctor, doc>>

\* doc.save()
Save ==
  /\ doc # Undefined
  /\ Invoke("save", saveCall(doc).impl, <<>>, doc, doc.m.client, saveCall(doc).call)
  /\ UNCHANGED <<s5, bound, ctor, doc>>

\* doc.create()
Create ==
  /\ doc # Undefined
  /\ Invoke("create", "create", <<>>, doc, doc.m.client, createCall(doc))
  /\ UNCHANGED <<s5, bound, ctor, doc>>

\* doc.update(data): the merge is done before the request is issued
Update(data) ==
  /\ doc # Undefined
  /\ doc' = mergeData(doc, IF data = Undefined THEN Null ELSE data)
  /\ Invoke("update", "update", <<data>>, doc, doc.m.client, updateCall(doc'))
  /\ UNCHANGED <<s5, bound, ctor>>

\* doc.patch(data)
Patch(data) ==
  /\ doc # Undefined
  /\ Invoke("patch", "patch", <<data>>, doc, doc.m.client, patchCall(doc, data))
  /\ UNCHANGED <<s5, bound, ctor, doc>>

\* doc.destroy()
Destroy ==
  /\ doc # Undefined
  /\ Invoke("destroy", "destroy", <<>>, doc, doc.m.client, destroyCall(doc))
  /\ UNCHANGED <<s5, bound, ctor, doc>>

\* doc.reload()
Reload ==
  /\ doc # Undefined
  /\ Invoke("reload", "reload", <<>>, doc, StaticClient(DocumentClass), reloadCall(doc))
  /\ UNCHANGED <<s5, bound, ctor, doc>>

\* the response to the request of the i-th pending call arrives (or the
\* request fails) and the awaiting method runs to its end
Respond(i, resp) ==
  /\ i \in DOMAIN calls
  /\ resp \in Responses(calls[i].req)
  /\ LET frame == calls[i]
         done == Complete(frame, doc, resp)
     IN /\ doc' = done.this
        /\ last' = [op |-> frame.op, impl |-> frame.impl, args |-> frame.args,
                    self |-> frame.self, before |-> doc, req |-> frame.req,
                    resp |-> resp, outcome |-> done.outcome]
  /\ calls' = Without(i)
  /\ UNCHANGED <<s5, bound, ctor>>

\* the Documents the last operation returned
Returned ==
  IF last.op \in {"find", "first", "createStatic"} /\ last.outcome.kind = "return"
     /\ last.outcome.value.t = "object"
  THEN {last.outcome.value}
  ELSE IF last.op = "where" /\ last.outcome.kind = "return"
  THEN {last.outcome.value.m.documents.a[i]
          : i \in DOMAIN last.outcome.value.m.documents.a}
  ELSE {}

\* the caller goes on with a Document the last operation returned
Adopt(d) ==
  /\ calls = NoCalls
  /\ d \in Returned
  /\ doc' = d
  /\ last' = [op |-> "adopt"]
  /\ UNCHANGED <<s5, bound, ctor, calls>>

\* all responses that may arrive
AllResponses == UNION {Responses(calls[i].req) : i \in DOMAIN calls}

(***************************************************************************)
(* Queries on their own: where, first and count over a range of options.   *)
(***************************************************************************)
QStrings ==
  {Str(<<"eq", "(", "s", ",", "1", ")">>), Str(<<"a", "&", "q", "=", "b", " ", "+">>)}
OrderStrings == {Str(<<"-name">>)}
Lists(S) == UNION {[1..n -> S] : n \in 0..MaxList}
QParts == {<<>>} \cup {[q |-> Arr(l)] : l \in Lists(QStrings)}
OrderParts == {<<>>} \cup {[order |-> Arr(l)] : l \in Lists(OrderStrings)}
LimitParts == {<<>>} \cup {[limit |-> Num(n)] : n \in {0, 2}}
PageParts == {<<>>} \cup {[page |-> Num(n)] : n \in {0, 1}}
FilterParts == {<<>>, [filter |-> Obj([eq |-> Obj([s |-> Str(<<"on">>)])])]}
QueryArgs ==
  {Undefined} \cup
  {Obj(a @@ b @@ c @@ d @@ e)
     : a \in QParts, b \in OrderParts, c \in LimitParts, d \in PageParts,
       e \in FilterParts}

\* the caller has taken the result of the last operation
Continue ==
  /\ last.op # "none"
  /\ last' = [op |-> "none"]
  /\ UNCHANGED <<s5, bound, ctor, doc, calls>>

\* nothing is pending: no call awaits and the last result has been taken
Quiet == calls = NoCalls /\ last.op = "none"

NextQuery ==
  \/ \E options \in QueryArgs : Quiet /\ Where(options)
  \/ \E options \in QueryArgs : Quiet /\ First(options)
  \/ \E options \in QueryArgs : Quiet /\ Count(options)
  \/ \E i \in 1..MaxCalls, resp \in AllResponses : Respond(i, resp)
  \/ Continue

\* a caller that only queries, one query at a time
SpecQuery == InitBound /\ [][NextQuery]_vars

(***************************************************************************)
(* The caller of the whole interface.                                      *)
(***************************************************************************)
WhereArgs == {Undefined, Obj([limit |-> Num(2)])}
FindArgs == {Str(<<"id1">>)}
CreateDataArgs == {Obj([a |-> Num(1)])}
CreateOptionArgs == {Undefined, Obj([ttl_at |-> Str(<<"x0">>)])}
UpdateArgs == {Undefined, Obj([a |-> EmptyObj])}
PatchArgs == {Obj([b |-> Num(1)])}

Init == InitBound

\* the caller may start a save or an update of its instance: it has taken the
\* last result and every pending call is a save or an update of the instance
Ready ==
  /\ last.op = "none"
  /\ \A i \in DOMAIN calls : calls[i].op \in {"save", "update"}

Next ==
  \/ \E arg \in DocumentArgs : NewDocument(arg)
  \/ \E d \in Returned : Adopt(d)
  \/ \E options \in WhereArgs : Quiet /\ Where(options)
  \/ \E options \in WhereArgs : Quiet /\ First(options)
  \/ \E options \in WhereArgs : Quiet /\ Count(options)
  \/ \E id \in FindArgs : Quiet /\ Find(id)
  \/ \E data \in CreateDataArgs, options \in CreateOptionArgs :
       Quiet /\ CreateStatic(data, options)
  \/ Ready /\ Save
  \/ Quiet /\ Create
  \/ \E data \in UpdateArgs : Ready /\ Update(data)
  \/ \E data \in PatchArgs : Quiet /\ Patch(data)
  \/ Quiet /\ Destroy
  \/ Quiet /\ Reload
  \/ \E i \in 1..MaxCalls, resp \in AllResponses : Respond(i, resp)
  \/ Continue

\* a caller that constructs Documents and calls every operation: an operation
\* is awaited on its own, except that saves and updates of the instance may be
\* started while others of them await, up to MaxCalls at a time
Spec == Init /\ [][Next]_vars

(***************************************************************************)
(* C7, C8, C9.                                                             *)
(***************************************************************************)
\* the options a call was made with
OptionsOf(frame) == IF frame.args[1] = Undefined THEN EmptyObj ELSE frame.args[1]
Supplied(options, name) == name \in DOMAIN options.m

\* the strings of a list of string values
StringsOf(list) == [i \in 1..Len(list.a) |-> list.a[i].v]

\* the request carries the list option `name` as one parameter per string,
\* in order, and carries no such parameter when the option is not supplied
ListForwarded(options, req, name) ==
  ParamValues(RequestParams(req), name)
    = IF Supplied(options, name) THEN StringsOf(options.m[name]) ELSE <<>>

\* the request carries the pagination option `name`, and only when supplied
PaginationForwarded(options, req, name) ==
  ParamValues(RequestParams(req), name)
    = IF Supplied(options, name) THEN <<toStr(options.m[name])>> ELSE <<>>

ParamNames == {<<"q">>, <<"order">>, <<"limit">>, <<"page">>, <<"filter">>}

C8_PaginationForwarded ==
  \A i \in DOMAIN calls :
    calls[i].op = "where" =>
      /\ PaginationForwarded(OptionsOf(calls[i]), calls[i].req, "limit")
      /\ PaginationForwarded(OptionsOf(calls[i]), calls[i].req, "page")

\* the rows of a successful list response
RowsOf(resp) == resp.data.m.data.m.data.a

RECURSIVE NonMappingOnPath(_, _)
NonMappingOnPath(cur, keys) ==
  IF Len(keys) <= 1 THEN FALSE
  ELSE LET k == KeyOf(Head(keys))
       IN IF k \notin DOMAIN cur.m THEN FALSE
          ELSE IF cur.m[k].t # "object" THEN TRUE
          ELSE NonMappingOnPath(cur.m[k], Tail(keys))

\* below cur, a key of the path other than the last is missing
RECURSIVE MissingOnPath(_, _)
MissingOnPath(cur, keys) ==
  IF Len(keys) <= 1 \/ cur.t # "object" THEN FALSE
  ELSE LET k == KeyOf(Head(keys))
       IN IF k \notin DOMAIN cur.m THEN TRUE
          ELSE MissingOnPath(cur.m[k], Tail(keys))

NonEmpty(x) == x.t = "string" /\ x.v # <<>>

\* the API key and the collection name a construction call is made with
CtorApiKey ==
  IF ctor.config = Undefined THEN Undefined ELSE Prop(ctor.config, "apiKey")
CtorCollection ==
  IF ctor.op = "collection" THEN ctor.name
  ELSE IF ctor.config = Undefined THEN Undefined
  ELSE Prop(ctor.config, "collection")
CtorClient ==
  IF ctor.op = "collection" THEN ctor.outcome.value.m.client ELSE ctor.outcome.value
ConfigurationErrors ==
  {<<"API key is required">>, <<"Collection name is required">>}

PresentId(this) == this.m.id \notin {Undefined, Null, Str(<<>>)}

\* the calls that are pending or have just completed
Pending == {calls[i] : i \in DOMAIN calls}
Issued == Pending \cup (IF last.op = "none" THEN {} ELSE {last})

\* the message of the error body of a response, <<>> when it carries none
ServerMessage(resp) ==
  IF resp = NoResponse \/ resp.data.t # "object" THEN <<>>
  ELSE IF "error" \notin DOMAIN resp.data.m THEN <<>>
  ELSE IF resp.data.m.error.t # "object" THEN <<>>
  ELSE IF "message" \notin DOMAIN resp.data.m.error.m THEN <<>>
  ELSE IF resp.data.m.error.m.message.t # "string" THEN <<>>
  ELSE resp.data.m.error.m.message.v

\* the text of the transport for a response that is not a success
TransportText(resp) ==
  IF resp = NoResponse THEN <<"Network Error">>
  ELSE <<"Request failed with status code ", Digits[(resp.status \div 100) + 1],
         "xx">>

\* the record a successful response carries
RecordOf(resp) == resp.data.m.data

\* C1: reload() of a Document with a non-empty id issues GET
\* /{collection}/{id} through the bound client and, on success, overwrites
\* the fields with the server's copy; with no id it throws the local error
\* and issues no request.
C1_ReloadRefetches ==
  last.op = "reload" =>
    IF PresentId(last.self)
    THEN /\ last.req = Request("GET",
                         <<"/">> \o last.self.m.client.m.collection.v \o <<"/">>
                           \o last.self.m.id.v, Undefined)
         /\ IsSuccess(last.resp) =>
              /\ last.outcome.kind = "return"
              /\ doc.m.id = RecordOf(last.resp).m.id
    ELSE /\ last.req = NoRequest
         /\ last.outcome = Throw(<<"Cannot reload document without ID">>)

\* C3: save() creates (POST /{collection}) exactly when the id is absent and
\* updates (PUT /{collection}/{id}) exactly when it is present; after a
\* successful create-path save the Document has an id, is persisted, and a
\* later save of it takes the update path.
C3_SaveDispatch ==
  /\ \A f \in Issued : f.op = "save" =>
       LET coll == f.self.m.client.m.collection.v IN
       IF PresentId(f.self)
       THEN /\ f.impl = "update"
            /\ f.req.method = "PUT"
            /\ f.req.url = <<"/">> \o coll \o <<"/">> \o f.self.m.id.v
       ELSE /\ f.impl = "create"
            /\ f.req.method = "POST"
            /\ f.req.url = <<"/">> \o coll
  /\ (last.op = "save" /\ last.impl = "create" /\ IsSuccess(last.resp)) =>
       /\ last.outcome.kind = "return"
       /\ PresentId(doc)
       /\ doc.m.id = RecordOf(last.resp).m.id
       /\ persisted(doc)
       /\ saveCall(doc).call.req.method = "PUT"

C3_Witness ==
  /\ last.op = "save" /\ last.impl = "create" /\ IsSuccess(last.resp)
  /\ ~PresentId(last.before)
  /\ PresentId(doc)

\* C4: find(id) returns null exactly when the server answers 404; on success
\* it returns a Document of the record; any other failure throws an error
\* labelled "Find failed: ".
C4_FindNullIff404 ==
  last.op = "find" =>
    /\ last.req = Request("GET", <<"/">> \o last.self.m.client.m.collection.v
                                   \o <<"/">> \o last.args[1].v, Undefined)
    /\ (last.outcome = Return(Null)) <=> (last.resp.status = 404)
    /\ IsSuccess(last.resp) =>
         /\ last.outcome.kind = "return"
         /\ last.outcome.value.t = "object"
         /\ last.outcome.value.m.id = RecordOf(last.resp).m.id
         /\ last.outcome.value.m.data = RecordOf(last.resp).m.data
    /\ (~IsSuccess(last.resp) /\ last.resp.status # 404) =>
         /\ last.outcome.kind = "throw"
         /\ Head(last.outcome.message) = "Find failed: "
         /\ ServerMessage(last.resp) # <<>> =>
              last.outcome.message = <<"Find failed: ">> \o ServerMessage(last.resp)

C4_Witness ==
  /\ last.op = "find"
  /\ last.resp = Response(404, MessageBody)
  /\ last.outcome = Return(Null)

\* the label of the errors of a method
Label(impl) ==
  CASE impl \in {"where", "first", "count"} -> "Query failed: "
    [] impl = "find" -> "Find failed: "
    [] impl \in {"create", "createStatic"} -> "Create failed: "
    [] impl = "update" -> "Update failed: "
    [] impl = "patch" -> "Patch failed: "
    [] impl = "destroy" -> "Delete failed: "

\* a completed network operation that failed (a find answered 404 apart)
FailedOperation ==
  /\ last.op \in {"where", "find", "first", "count", "createStatic", "save",
                 "create", "update", "patch", "destroy"}
  /\ ~IsSuccess(last.resp)
  /\ ~(last.op = "find" /\ last.resp.status = 404)

\* C5: a network operation that fails throws an error whose message is the
\* label of the operation followed by the server's error message when the
\* response carried one and by the transport's text otherwise; no failure is
\* returned as a value.
C5_ErrorLabels ==
  FailedOperation =>
    last.outcome =
      Throw(<<Label(last.impl)>> \o
            (IF ServerMessage(last.resp) # <<>> THEN ServerMessage(last.resp)
             ELSE TransportText(last.resp)))

C5_Witness ==
  /\ last.op = "patch"
  /\ last.resp = Response(500, MessageBody)
  /\ last.outcome = Throw(<<"Patch failed: ">> \o MessageBody.m.error.m.message.v)

\* C10: destroy() of a Document with an id issues DELETE /{collection}/{id}
\* and returns true on success; it throws on failure and it leaves the
\* Document's fields as they were, the id included.
C10_DestroyFrame ==
  /\ \A f \in Issued : f.op = "destroy" =>
       f.req = Request("DELETE",
                 <<"/">> \o f.self.m.client.m.collection.v \o <<"/">>
                   \o toStr(f.self.m.id), Undefined)
  /\ last.op = "destroy" =>
       /\ doc = last.before
       /\ persisted(doc) = persisted(last.before)
       /\ IsSuccess(last.resp) => last.outcome = Return(Bool(TRUE))
       /\ ~IsSuccess(last.resp) => last.outcome.kind = "throw"

C10_Witness ==
  /\ last.op = "destroy"
  /\ IsSuccess(last.resp)
  /\ last.outcome = Return(Bool(TRUE))
  /\ PresentId(last.before)
  /\ persisted(doc)


(***************************************************************************)
(* C11, C12, C13, C14.                                                     *)
(***************************************************************************)
\* the public operations that go to the network; reload does when the
\* Document has an id
NetworkOperation(f) ==
  \/ f.op \in {"where", "find", "first", "count", "createStatic", "save",
               "create", "update", "patch", "destroy"}
  \/ f.op = "reload" /\ PresentId(f.self)

\* the number of requests a call has issued
RequestsOf(f) == IF f.req = NoRequest THEN 0 ELSE 1

\* C11: every call of a network operation issues exactly one request and
\* completes after the single response or transport failure to it: a pending
\* call awaits its one request, a completed call has had its one response.
C11_OneRequest ==
  /\ \A i \in DOMAIN calls :
       NetworkOperation(calls[i]) /\ RequestsOf(calls[i]) = 1
  /\ (last.op \notin {"none", "new", "adopt"} /\ NetworkOperation(last)) =>
       /\ RequestsOf(last) = 1
       /\ last.resp \in Responses(last.req)
       /\ last.outcome.kind \in {"return", "throw"}


\* the shallow merge of two mappings: the keys of both, the argument's value
\* where it has the key
ShallowMerge(old, arg) ==
  Obj([k \in DOMAIN old.m \cup DOMAIN arg.m |->
         IF k \in DOMAIN arg.m THEN arg.m[k] ELSE old.m[k]])

\* the fields of a Document that the server's record holds
RecordFields == {"id", "collection", "version", "created_at", "updated_at", "ttl_at"}

\* a call has just been started: it is the newest pending one
Started(op) ==
  /\ Len(calls') = Len(calls) + 1
  /\ calls'[Len(calls')].op = op

\* C12: update(data) with explicit data replaces the local data by the shallow
\* merge of the old data and the argument and leaves the other fields, sends
\* PUT /{collection}/{id} with {data: merged data, ttl_at}, and on success
\* every local field is the one of the server's record.
C12_UpdateMerges ==
  [][
     /\ (Started("update") /\ calls'[Len(calls')].args[1] # Undefined) =>
          (LET f == calls'[Len(calls')]
               merged == ShallowMerge(doc.m.data, f.args[1])
           IN /\ doc'.m.data = merged
              /\ \A k \in RecordFields \cup {"client"} : doc'.m[k] = doc.m[k]
              /\ f.req = Request("PUT",
                           <<"/">> \o doc.m.client.m.collection.v \o <<"/">>
                             \o toStr(doc.m.id),
                           Obj([data |-> merged, ttl_at |-> doc.m.ttl_at])))
     /\ (last'.op = "update" /\ IsSuccess(last'.resp)) =>
          (/\ last'.outcome = Return(doc')
           /\ doc'.m.data = RecordOf(last'.resp).m.data
           /\ \A k \in RecordFields : doc'.m[k] = RecordOf(last'.resp).m[k])
  ]_vars

C12_Witness ==
  /\ last.op = "update" /\ IsSuccess(last.resp)
  /\ last.args[1] = Obj([a |-> EmptyObj])
  /\ last.self.m.data = Obj([b |-> Obj([a |-> Num(1)])])
  /\ last.req.body.m.data = Obj([a |-> EmptyObj, b |-> Obj([a |-> Num(1)])])
  /\ doc.m.data = RecordOf(last.resp).m.data


\* a save() that was called on a Document with no id
UnpersistedSave(f) == f.op = "save" /\ ~PresentId(f.self)

\* the request of the create-path for a Document
CreateRequest(this) ==
  Request("POST", <<"/">> \o this.m.client.m.collection.v,
          Obj([data |-> this.m.data, ttl_at |-> this.m.ttl_at]))

\* the fields of the Document are those of the record of a response
HoldsRecord(this, resp) ==
  /\ this.m.data = RecordOf(resp).m.data
  /\ \A k \in RecordFields : this.m[k] = RecordOf(resp).m[k]

\* C13: saves called on a Document with no id before any response arrives all
\* take the create-path, one POST /{collection} each; when one of them
\* succeeds after another has given the Document an id, the Document's fields
\* are those of the response that has just arrived.
C13_ConcurrentSaves ==
  /\ \A f \in Pending : UnpersistedSave(f) =>
       f.impl = "create" /\ f.req = CreateRequest(f.self)
  /\ (last.op = "save" /\ UnpersistedSave(last)) =>
       /\ last.impl = "create" /\ last.req = CreateRequest(last.self)
       /\ IsSuccess(last.resp) =>
            /\ HoldsRecord(doc, last.resp)
            /\ last.outcome = Return(doc)
            /\ (last.before.m.id # RecordOf(last.resp).m.id) =>
                 doc.m.id # last.before.m.id

\* the second of two such saves has succeeded: the Document had the id of the
\* first response and now has the id of the second
C13_Witness ==
  /\ calls = NoCalls
  /\ last.op = "save" /\ UnpersistedSave(last) /\ IsSuccess(last.resp)
  /\ PresentId(last.before)
  /\ ~HoldsRecord(last.before, last.resp)
  /\ HoldsRecord(doc, last.resp)
  /\ last.before.m.id # doc.m.id


\* the operations of an instance that write to the server
InstanceOperations == {"save", "create", "update", "patch", "destroy"}

\* a pending call has just completed
Completed ==
  /\ Len(calls') = Len(calls) - 1
  /\ last'.op \in InstanceOperations

\* an update with explicit data has just been started
StartedExplicitUpdate ==
  Started("update") /\ calls'[Len(calls')].args[1] # Undefined

\* another operation of the instance has just been started
StartedOther ==
  /\ \E op \in InstanceOperations : Started(op)
  /\ ~StartedExplicitUpdate

\* C14: a failing create(), save(), update(), patch(data) or destroy() changes
\* no local field, neither when it is called nor when it fails; update(data)
\* with explicit data puts the shallow merge in the local data when it is
\* called, changes no other field, and its failure changes nothing: the merge
\* is not rolled back.
C14_LocalStateOnFailure ==
  [][
     /\ StartedOther => (doc' = doc)
     /\ StartedExplicitUpdate =>
          (/\ doc'.m.data = ShallowMerge(doc.m.data, calls'[Len(calls')].args[1])
           /\ \A k \in RecordFields \cup {"client"} : doc'.m[k] = doc.m[k])
     /\ (Completed /\ ~IsSuccess(last'.resp)) =>
          (/\ doc' = doc
           /\ last'.before = doc
           /\ last'.outcome.kind = "throw")
  ]_vars

\* an update with explicit data has failed and the Document holds the merge
C14_Witness ==
  /\ last.op = "update" /\ ~IsSuccess(last.resp)
  /\ last.args[1] = Obj([a |-> EmptyObj])
  /\ last.outcome.kind = "throw"
  /\ doc = last.before
  /\ doc.m.data = ShallowMerge(last.self.m.data, last.args[1])
  /\ doc.m.data # last.self.m.data
  /\ \A k \in RecordFields : doc.m[k] = last.self.m[k]

=============================================================================
